---- MODULE Spec2Model ----
(***************************************************************************)
(* The Match engine of axelrod/match.py, with the Stalker strategy of      *)
(* axelrod/strategies/stalker.py as its stochastic player.  A Match plays  *)
(* two Player objects for `turns` turns, or fetches the record from a      *)
(* DeterministicCache keyed by (player, player, turns).                    *)
(*                                                                         *)
(* Player, Game, DeterministicCache and interaction_utils are imported by  *)
(* match.py but their code is not part of the sources at hand; they are    *)
(* modelled from their contract (spec.md sections 2, 4.4, 4.5 and 6).      *)
(* The FinalTransformer decorator named on stalker.py line 9 is neither    *)
(* imported there nor described anywhere, and is left out.                 *)
(***************************************************************************)
EXTENDS Integers, Sequences, FiniteSets, TLC

\* ------------------------------------------------------------------ bounds

\* The largest number of turns a Match is constructed with.
MaxTurns == 2

\* The largest number of turns a Stalker is driven for on its own.
MaxStalkerTurns == 5

\* ---------------------------------------------------------------- actions

C == "C"

D == "D"

\* Python's None, as returned by a strategy whose if/elif chain ends without
\* a return.
NoAction == "None"

\* ------------------------------------------------------------------- Game

\* The standard payoffs (R, P, S, T).
RPST == <<3, 1, 0, 5>>

\* Game.score(pair): the pair of scores of an action pair.
Score(pair) ==
    IF pair = <<C, C>> THEN <<RPST[1], RPST[1]>>
    ELSE IF pair = <<D, D>> THEN <<RPST[2], RPST[2]>>
    ELSE IF pair = <<C, D>> THEN <<RPST[3], RPST[4]>>
    ELSE <<RPST[4], RPST[3]>>

\* ---------------------------------------------------------------- players

\* The player objects (identity tokens) and the strategy class of each.
\* "opp" is a plain Player whose history its caller writes and whose strategy
\* is never asked: the opponent a Stalker is driven against on its own.
Players == {"coop", "dfc", "stk", "opp"}

StrategyOf(p) ==
    IF p = "coop" THEN "Cooperator"
    ELSE IF p = "dfc" THEN "Defector"
    ELSE IF p = "stk" THEN "Stalker"
    ELSE "Player"

\* classifier['stochastic'] of a player: Stalker's classifier sets it.
Stochastic(p) == StrategyOf(p) = "Stalker"

\* The match attributes a Player holds before any Match has tagged it.
DefaultAttributes == [length |-> -1, game |-> "default", noise |-> 0]

RECURSIVE SumSeq(_)
SumSeq(s) == IF s = <<>> THEN 0 ELSE s[1] + SumSeq(Tail(s))

Last(s) == s[Len(s)]

\* Stalker.strategy with score_last_round: the set of its possible outcomes
\* [act, scores] for the player's own history, the opponent's history
\* and the player's scores list.  sum(scores) / len(scores) is compared
\* without division: avg > k  iff  sum > k * len.
StalkerStrategy(own, opp, sc) ==
    IF Len(own) = 0
    THEN {[act |-> C, scores |-> sc]}
    ELSE
      LET sc2 == Append(sc, Score(<<Last(own), Last(opp)>>)[1])
          sum == SumSeq(sc2)
          n == Len(sc2)
          very_good == RPST[1]
          very_bad == RPST[2]
          \* wish_score = (very_bad + very_good) / 2, compared doubled
          wish2 == very_bad + very_good
          out(a) == [act |-> a, scores |-> sc2]
      IN  IF sum > very_good * n THEN {out(D)}
          ELSE IF 2 * sum > wish2 * n /\ sum < very_good * n THEN {out(C)}
          ELSE IF sum > 2 * n THEN {out(C)}
          ELSE IF sum < 2 * n /\ sum > 1 * n THEN {out(D)}
          ELSE IF sum < 1 * n THEN {out(C), out(D)}
          ELSE {out(NoAction)}

\* strategy(opponent) of player p: the set of its possible outcomes.
StrategyOutcomes(p, own, opp, sc) ==
    IF StrategyOf(p) = "Stalker" THEN StalkerStrategy(own, opp, sc)
    ELSE IF StrategyOf(p) = "Cooperator" THEN {[act |-> C, scores |-> sc]}
    ELSE IF StrategyOf(p) = "Defector" THEN {[act |-> D, scores |-> sc]}
    ELSE {}

FlipAction(a) == IF a = C THEN D ELSE C

\* The action committed for intended action a under `noise` (a percentage):
\* play flips only when noise is truthy; a probability <= 0 never flips.
Committed(noise, a) ==
    IF noise = 0 \/ noise < 0 THEN {a}
    ELSE IF noise >= 100 THEN {FlipAction(a)}
    ELSE {a, FlipAction(a)}

\* Player.play(opponent, noise): one turn from the simulation state st =
\* [h1, h2, s1, s2, raised, calls].  Both strategies are asked, then both
\* histories grow by the committed actions.  An Action is C or D and nothing
\* else: a strategy that hands back anything else makes the turn raise before
\* either history grows.
PlayerPlay(p1, p2, noise, st) ==
    UNION { UNION {
              IF o1.act \notin {C, D} \/ o2.act \notin {C, D}
              THEN {[st EXCEPT !.s1 = o1.scores, !.s2 = o2.scores,
                               !.raised = TRUE, !.calls = @ + 1]}
              ELSE { [h1 |-> Append(st.h1, a1), h2 |-> Append(st.h2, a2),
                      s1 |-> o1.scores, s2 |-> o2.scores,
                      raised |-> FALSE, calls |-> st.calls + 1]
                     : a1 \in Committed(noise, o1.act),
                       a2 \in Committed(noise, o2.act) }
              : o2 \in StrategyOutcomes(p2, st.h2, st.h1, st.s2) }
          : o1 \in StrategyOutcomes(p1, st.h1, st.h2, st.s1) }

\* ------------------------------------------------------------------ state

Matches == {"m1", "m2"}

CacheIds == {"shared"} \cup {"own_" \o m : m \in Matches}

VARIABLES
    history,    \* history[p]: the player's own history
    scores,     \* scores[p]: Stalker.scores (empty for the other classes)
    attributes, \* attributes[p]: the match attributes last pushed into p
    match,      \* match[m]: the fields of the Match object in slot m
    cache,      \* cache[c]: [mutable, store], store a function key -> record
    last        \* what the most recent operation did (instrumentation)

vars == <<history, scores, attributes, match, cache, last>>

EmptyStore == [k \in {} |-> <<>>]

\* `last` of a state no operation has led to; each operation fills in what it
\* did: the path play took, whether it tested the cache for its key, read it,
\* tried to write it (and with which key), whether the write or the
\* simulation raised, which players it reset, how often it called
\* players[0].play, and what it returned.
NoOp ==
    [op |-> "init", m |-> "-", path |-> "-", key |-> <<>>, tested |-> FALSE,
     read |-> FALSE, wrote |-> FALSE, wfailed |-> FALSE, raised |-> FALSE,
     resets |-> {}, calls |-> 0, ret |-> <<>>, winner |-> <<>>, stat |-> <<>>]

\* ---------------------------------------------------- a Stalker on its own

\* Stalker.reset that leaves the scores list alone.
StalkerReset_keeps_scores(pl) == [pl EXCEPT !.history = <<>>]

\* Stalker.reset on the player's [history, scores]: super().reset() empties
\* the history, then the scores list is emptied.
StalkerReset(pl) == [history |-> <<>>, scores |-> <<>>]

\* One turn of a Stalker driven by hand: strategy(opponent) is called once,
\* and the action it hands back and the opponent's action a, whatever it is,
\* go onto the two histories.  When what it hands back is no Action the turn
\* is not completed and the player is driven no further until it is reset.
StalkerTurn(p, q, a) ==
    /\ Len(history[p]) < MaxStalkerTurns
    /\ ~(last.op = "strategy" /\ last.raised)
    /\ \E o \in StalkerStrategy(history[p], history[q], scores[p]) :
          /\ scores' = [scores EXCEPT ![p] = o.scores]
          /\ history' = IF o.act \in {C, D}
                        THEN [history EXCEPT ![p] = Append(@, o.act),
                                             ![q] = Append(@, a)]
                        ELSE history
          /\ last' = [NoOp EXCEPT !.op = "strategy", !.ret = <<o.act>>,
                                  !.raised = o.act \notin {C, D},
                                  !.calls = Len(history[p]) + 1]
    /\ UNCHANGED <<attributes, match, cache>>

\* reset() of the Stalker and of its opponent between two matches.
StalkerResetStep(p, q) ==
    /\ last.op = "strategy"
    /\ LET pl == StalkerReset([history |-> history[p], scores |-> scores[p]])
       IN  /\ history' = [history EXCEPT ![p] = pl.history, ![q] = <<>>]
           /\ scores' = [scores EXCEPT ![p] = pl.scores]
    /\ last' = [NoOp EXCEPT !.op = "reset"]
    /\ UNCHANGED <<attributes, match, cache>>

\* ------------------------------------------------------------ Match engine

\* is_stochastic without the noise operand.
is_stochastic_players_only(players, noise) ==
    \E i \in 1..Len(players) : Stochastic(players[i])

\* is_stochastic(players, noise): `noise or any(...)`, so any non-zero noise
\* counts (noise is a percentage here).
is_stochastic(players, noise) ==
    noise # 0 \/ \E i \in 1..Len(players) : Stochastic(players[i])

\* Match._stochastic
_stochastic(mm) == is_stochastic(mm.players, mm.noise)

\* _cache_update_required without the look at the cache's mutable flag.
_cache_update_required_unguarded(mm) ==
    /\ mm.noise = 0
    /\ ~(\E i \in 1..Len(mm.players) : Stochastic(mm.players[i]))

\* _cache_update_required without the look at the noise.
_cache_update_required_noisy(mm) ==
    /\ cache[mm.cache].mutable
    /\ ~(\E i \in 1..Len(mm.players) : Stochastic(mm.players[i]))

\* Match._cache_update_required
_cache_update_required(mm) ==
    /\ mm.noise = 0
    /\ cache[mm.cache].mutable
    /\ ~(\E i \in 1..Len(mm.players) : Stochastic(mm.players[i]))

\* A Match slot holding no Match object.  Beside the fields of Match.__init__
\* a slot notes whether it holds a Match (live) and whether the players
\* property has been assigned since construction (reassigned).
NoMatch ==
    [live |-> FALSE, reassigned |-> FALSE, result |-> <<>>, turns |-> 0, cache_key |-> <<>>,
     noise |-> 0, game |-> "-", cache |-> "-",
     match_attributes |-> DefaultAttributes, players |-> <<>>]

\* The players setter: set_match_attributes on every assigned player.
PushAttributes(ma, players) ==
    [p \in Players |->
        IF \E i \in 1..Len(players) : players[i] = p THEN ma ELSE attributes[p]]

\* Match.__init__.  game = "None" makes a Game() of the match's own,
\* deterministic_cache = "None" a fresh DeterministicCache(), and
\* match_attributes = <<>> (None) the default attributes.
MatchInit(m, players, turns, game, deterministic_cache, noise, match_attributes) ==
    LET g == IF game = "None" THEN "game_" \o m ELSE game
        c == IF deterministic_cache = "None" THEN "own_" \o m
             ELSE deterministic_cache
        ma == IF match_attributes = <<>>
              THEN [length |-> turns, game |-> g, noise |-> noise]
              ELSE match_attributes[1]
    IN  /\ match' = [match EXCEPT ![m] =
                        [live |-> TRUE, reassigned |-> FALSE, result |-> <<>>, turns |-> turns,
                         cache_key |-> <<players[1], players[2], turns>>,
                         noise |-> noise, game |-> g, cache |-> c,
                         match_attributes |-> ma, players |-> players]]
        \* the Match this one replaces in slot m is gone, and with it the
        \* cache it had made for itself
        /\ cache' = [cache EXCEPT !["own_" \o m] =
                            [mutable |-> TRUE, store |-> EmptyStore]]
        /\ attributes' = PushAttributes(ma, players)
        /\ last' = [NoOp EXCEPT !.op = "other"]
        /\ UNCHANGED <<history, scores>>

\* Assignment to Match.players.
SetPlayers(m, players) ==
    /\ match[m].live
    /\ match' = [match EXCEPT ![m].players = players, ![m].reassigned = TRUE]
    /\ attributes' = PushAttributes(match[m].match_attributes, players)
    /\ last' = [NoOp EXCEPT !.op = "other"]
    /\ UNCHANGED <<history, scores, cache>>

\* The owner of a cache sets its mutable flag.
SetMutable(c, b) ==
    /\ cache[c].mutable # b
    /\ cache' = [cache EXCEPT ![c].mutable = b]
    /\ last' = [NoOp EXCEPT !.op = "other"]
    /\ UNCHANGED <<history, scores, attributes, match>>

\* The turn loop with `turn <= self.turns`: one turn too many.
RECURSIVE PlayTurns_one_more(_, _, _, _, _, _)
PlayTurns_one_more(p1, p2, noise, turns, turn, sts) ==
    IF turn <= turns
    THEN PlayTurns_one_more(p1, p2, noise, turns, turn + 1,
                   UNION { IF st.raised THEN {st} ELSE PlayerPlay(p1, p2, noise, st)
                           : st \in sts })
    ELSE sts

\* The turn loop of Match.play: while turn < self.turns.
RECURSIVE PlayTurns(_, _, _, _, _, _)
PlayTurns(p1, p2, noise, turns, turn, sts) ==
    IF turn < turns
    THEN PlayTurns(p1, p2, noise, turns, turn + 1,
                   UNION { IF st.raised THEN {st} ELSE PlayerPlay(p1, p2, noise, st)
                           : st \in sts })
    ELSE sts

\* list(zip(h1, h2))
Zip(h1, h2) ==
    [i \in 1..(IF Len(h1) < Len(h2) THEN Len(h1) ELSE Len(h2)) |-> <<h1[i], h2[i]>>]

\* cache[key] = value
StorePut(store, key, value) ==
    [k \in DOMAIN store \cup {key} |-> IF k = key THEN value ELSE store[k]]

\* play without its resets: the simulation starts from the state the players
\* are in.
ResetPlayers_skipped(h1, h2, s1, s2) ==
    [h1 |-> h1, h2 |-> h2, s1 |-> s1, s2 |-> s2, raised |-> FALSE, calls |-> 0]

\* `for p in self.players: p.reset()`: the state a simulation starts from,
\* whatever histories and scores the two players held.
ResetPlayers(h1, h2, s1, s2) ==
    [h1 |-> <<>>, h2 |-> <<>>, s1 |-> <<>>, s2 |-> <<>>,
     raised |-> FALSE, calls |-> 0]

\* self.result extended by the new record instead of replaced.
StoreResult_extending(old, result) == old \o result

\* `self.result = result`: the new value of the field.
StoreResult(old, result) == result

\* Match.play.  wfail: the cache's indexed write raises.
Play(m) ==
    /\ match[m].live
    /\ LET mm == match[m]
           p1 == mm.players[1]
           p2 == mm.players[2]
           key == mm.cache_key
           stoch == _stochastic(mm)
       IN  IF stoch \/ key \notin DOMAIN cache[mm.cache].store
           THEN \E st \in PlayTurns(p1, p2, mm.noise, mm.turns, 0,
                                    {ResetPlayers(history[p1], history[p2],
                                                  scores[p1], scores[p2])}) :
                \E wfail \in BOOLEAN :
                  LET result == Zip(st.h1, st.h2)
                      write == ~st.raised /\ _cache_update_required(mm)
                      raised == st.raised \/ (write /\ wfail)
                  IN  /\ wfail => write
                      /\ history' = [history EXCEPT ![p1] = st.h1, ![p2] = st.h2]
                      /\ scores' = [scores EXCEPT
                                      ![p1] = IF StrategyOf(p1) = "Stalker"
                                              THEN st.s1 ELSE <<>>,
                                      ![p2] = IF StrategyOf(p2) = "Stalker"
                                              THEN st.s2 ELSE <<>>]
                      /\ cache' = IF write /\ ~wfail
                                  THEN [cache EXCEPT ![mm.cache].store =
                                          StorePut(@, key, result)]
                                  ELSE cache
                      /\ match' = IF raised THEN match
                                  ELSE [match EXCEPT ![m].result =
                                                 StoreResult(@, result)]
                      /\ last' = [NoOp EXCEPT !.op = "play", !.m = m,
                                    !.path = "fresh", !.key = key,
                                    !.tested = ~stoch, !.wrote = write,
                                    !.wfailed = wfail, !.raised = raised,
                                    !.resets = {p1, p2}, !.calls = st.calls,
                                    !.ret = IF raised THEN <<>> ELSE result]
                      /\ UNCHANGED attributes
           ELSE LET result == cache[mm.cache].store[key]
                IN  /\ match' = [match EXCEPT ![m].result = StoreResult(@, result)]
                    /\ last' = [NoOp EXCEPT !.op = "play", !.m = m,
                                  !.path = "hit", !.key = key,
                                  !.tested = TRUE,
                                  !.read = TRUE, !.ret = result]
                    /\ UNCHANGED <<history, scores, attributes, cache>>

\* ------------------------------------------------------------- statistics

\* Python values a statistic hands back, each with its type: `is` compares
\* both parts, `==` only the number of an int or a bool.
PyNone == <<"NoneType", "">>

PyFalse == <<"bool", "0">>

PyInt(i) == <<"int", IF i = 0 THEN "0" ELSE "1">>

PyPlayer(p) == <<"Player", p>>

\* iu.compute_final_score(interactions, game): the two sums of the per-turn
\* scores.
RECURSIVE compute_final_score(_)
compute_final_score(interactions) ==
    IF interactions = <<>> THEN <<0, 0>>
    ELSE LET rest == compute_final_score(Tail(interactions))
             sc == Score(interactions[1])
         IN  <<sc[1] + rest[1], sc[2] + rest[2]>>

\* iu.compute_winner_index(interactions, game): None for no interactions,
\* False for equal final scores, else the index of the higher one.
compute_winner_index(interactions) ==
    IF Len(interactions) = 0 THEN PyNone
    ELSE LET fs == compute_final_score(interactions)
         IN  IF fs[1] = fs[2] THEN PyFalse
             ELSE IF fs[1] > fs[2] THEN PyInt(0) ELSE PyInt(1)

\* Match.winner with `== False` for `is False`: index 0 equals False.
winner_by_equality(mm) ==
    LET winner_index == compute_winner_index(mm.result)
    IN  IF winner_index[1] \in {"bool", "int"} /\ winner_index[2] = "0" THEN PyFalse
        ELSE IF winner_index = PyNone THEN PyNone
        ELSE mm.players[IF winner_index[2] = "0" THEN 1 ELSE 2]

\* Match.__len__
__len__(mm) == mm.turns

\* Match.winner
winner(mm) ==
    LET winner_index == compute_winner_index(mm.result)
    IN  IF winner_index = PyFalse THEN PyFalse
        ELSE IF winner_index = PyNone THEN PyNone
        ELSE mm.players[IF winner_index[2] = "0" THEN 1 ELSE 2]

\* A call of Match.winner: nothing changes but the caller's knowledge.
Winner(m) ==
    /\ match[m].live
    /\ last' = [NoOp EXCEPT !.op = "winner", !.m = m,
                            !.winner = LET w == winner(match[m])
                                       IN  IF w \in {PyFalse, PyNone} THEN w
                                           ELSE PyPlayer(w)]
    /\ UNCHANGED <<history, scores, attributes, match, cache>>

\* The four per-turn action pairs.
ActionPairs == {<<C, C>>, <<C, D>>, <<D, C>>, <<D, D>>}

\* iu.compute_scores(interactions, game): the per-turn score pairs.
compute_scores(interactions) ==
    [i \in 1..Len(interactions) |-> Score(interactions[i])]

\* iu.compute_cooperations(interactions): the count of C of each seat.
compute_cooperations(interactions) ==
    <<Cardinality({i \in 1..Len(interactions) : interactions[i][1] = C}),
      Cardinality({i \in 1..Len(interactions) : interactions[i][2] = C})>>

\* iu.compute_state_distribution(interactions): the frequency table of the
\* action pairs; on an empty record no pair has any count.
compute_state_distribution(interactions) ==
    [pr \in ActionPairs |->
        Cardinality({i \in 1..Len(interactions) : interactions[i] = pr})]

\* iu.compute_sparklines(interactions, c_symbol, d_symbol): one symbol per
\* turn and player.
compute_sparklines(interactions, c_symbol, d_symbol) ==
    [seat \in 1..2 |->
        [i \in 1..Len(interactions) |->
            IF interactions[i][seat] = C THEN c_symbol ELSE d_symbol]]

\* A per-turn value: the total with the number of turns played it is divided
\* by (no value where that number is 0).
PerTurn(total, interactions) ==
    IF Len(interactions) = 0 THEN PyNone ELSE <<"per_turn", total, Len(interactions)>>

\* Match.state_distribution
state_distribution(mm) == compute_state_distribution(mm.result)

\* The statistic queries of Match beside winner.
Queries ==
    {"scores", "final_score", "final_score_per_turn", "cooperation",
     "normalised_cooperation", "state_distribution",
     "normalised_state_distribution", "sparklines", "__len__"}

\* What the query q of Match answers: each hands self.result (and the game)
\* to its function of interaction_utils, __len__ answers self.turns.
StatisticValue(mm, q) ==
    CASE q = "scores" -> compute_scores(mm.result)
      [] q = "final_score" -> compute_final_score(mm.result)
      [] q = "final_score_per_turn" ->
            PerTurn(compute_final_score(mm.result), mm.result)
      [] q = "cooperation" -> compute_cooperations(mm.result)
      [] q = "normalised_cooperation" ->
            PerTurn(compute_cooperations(mm.result), mm.result)
      [] q = "state_distribution" -> state_distribution(mm)
      [] q = "normalised_state_distribution" ->
            PerTurn(state_distribution(mm), mm.result)
      [] q = "sparklines" -> compute_sparklines(mm.result, "#", " ")
      [] OTHER -> __len__(mm)

\* A statistic query that uses up the record it reads.
Statistic_consuming(m, q) ==
    /\ match[m].live
    /\ last' = [NoOp EXCEPT !.op = q, !.m = m, !.stat = StatisticValue(match[m], q)]
    /\ match' = [match EXCEPT ![m].result = <<>>]
    /\ UNCHANGED <<history, scores, attributes, cache>>

\* A call of the statistic query q of Match: the methods read self.result,
\* self.game and self.turns and assign nothing.
Statistic(m, q) ==
    /\ match[m].live
    /\ last' = [NoOp EXCEPT !.op = q, !.m = m, !.stat = StatisticValue(match[m], q)]
    /\ UNCHANGED <<history, scores, attributes, match, cache>>

\* ------------------------------------------------------------- the inputs

Cfg(pr, t, n) == [players |-> pr, turns |-> t, noise |-> n]

\* The matches Spec constructs: two deterministic pairings of MaxTurns turns
\* (one the other's reverse), the first of them again for one turn without
\* noise, under noise and under a negative noise (which Match.__init__ takes
\* as it comes), and a pairing with the stochastic Stalker.
Configs ==
    { Cfg(<<"coop", "dfc">>, MaxTurns, 0),
      Cfg(<<"dfc", "coop">>, MaxTurns, 0),
      Cfg(<<"coop", "dfc">>, 1, 0),
      Cfg(<<"coop", "dfc">>, 1, 50),
      Cfg(<<"coop", "dfc">>, 1, -50),
      Cfg(<<"dfc", "stk">>, MaxTurns, 0) }

Pairings == {cf.players : cf \in Configs}

\* The match_attributes mapping handed to every Match of Spec.
GivenAttributes == [length |-> -1, game |-> "default", noise |-> 0]

Init ==
    /\ history = [p \in Players |-> <<>>]
    /\ scores = [p \in Players |-> <<>>]
    /\ attributes = [p \in Players |-> DefaultAttributes]
    /\ match = [m \in Matches |-> NoMatch]
    /\ cache = [c \in CacheIds |-> [mutable |-> TRUE, store |-> EmptyStore]]
    /\ last = NoOp

Next ==
    \/ \E cf \in Configs :
          MatchInit("m1", cf.players, cf.turns, "None", "shared", cf.noise,
                    <<GivenAttributes>>)
    \/ \E pr \in Pairings : SetPlayers("m1", pr)
    \/ \E b \in BOOLEAN : SetMutable("shared", b)
    \/ Play("m1")

\* One Match at a time (a new Match takes the place of the last), every Match
\* on the shared cache, whose owner freezes and thaws it.
Spec == Init /\ [][Next]_vars

\* Two Match objects side by side on deterministic players, each Match on
\* the shared cache or on one of its own.
ConfigsTwo ==
    { Cfg(<<"coop", "dfc">>, MaxTurns, 0),
      Cfg(<<"dfc", "coop">>, MaxTurns, 0) }

NextTwo ==
    \/ \E m \in Matches, cf \in ConfigsTwo, c \in {"None", "shared"} :
          MatchInit(m, cf.players, cf.turns, "None", c, cf.noise,
                    <<GivenAttributes>>)
    \/ \E m \in Matches, pr \in {cf.players : cf \in ConfigsTwo} :
          SetPlayers(m, pr)
    \/ \E b \in BOOLEAN : SetMutable("shared", b)
    \/ \E m \in Matches : Play(m)

SpecTwo == Init /\ [][NextTwo]_vars

\* Two Match objects side by side that tag the players they share: matches of
\* different lengths, with the default match attributes or the given ones.
ConfigsAttrs ==
    { Cfg(<<"coop", "dfc">>, MaxTurns, 0),
      Cfg(<<"coop", "stk">>, MaxTurns + 1, 0) }

NextAttrs ==
    \/ \E m \in Matches, cf \in ConfigsAttrs,
          ma \in {<<>>, <<GivenAttributes>>} :
          MatchInit(m, cf.players, cf.turns, "None", "shared", cf.noise, ma)
    \/ \E m \in Matches, pr \in {cf.players : cf \in ConfigsAttrs} :
          SetPlayers(m, pr)
    \/ \E m \in Matches : Play(m)

SpecAttrs == Init /\ [][NextAttrs]_vars

\* One Match at a time, of MaxTurns turns, of none and of a negative number
\* of turns, with a winner in either seat or a tie, and its statistics.
ConfigsStats ==
    { Cfg(<<"coop", "dfc">>, MaxTurns, 0),
      Cfg(<<"dfc", "coop">>, MaxTurns, 0),
      Cfg(<<"stk", "coop">>, MaxTurns, 0),
      Cfg(<<"coop", "dfc">>, 1, 50),
      Cfg(<<"coop", "dfc">>, 0, 0),
      Cfg(<<"coop", "dfc">>, -1, 0) }

NextStats ==
    \/ \E cf \in ConfigsStats :
          MatchInit("m1", cf.players, cf.turns, "None", "shared", cf.noise,
                    <<GivenAttributes>>)
    \/ \E pr \in {cf.players : cf \in ConfigsStats} : SetPlayers("m1", pr)
    \/ Play("m1")
    \/ Winner("m1")

SpecStats == Init /\ [][NextStats]_vars

\* One Match at a time and every statistic query on it: matches of MaxTurns
\* turns, of one noisy turn, of none and of a negative number of turns.
ConfigsQueries ==
    { Cfg(<<"coop", "dfc">>, MaxTurns, 0),
      Cfg(<<"dfc", "coop">>, MaxTurns, 0),
      Cfg(<<"coop", "dfc">>, 1, 50),
      Cfg(<<"coop", "dfc">>, 0, 0),
      Cfg(<<"coop", "dfc">>, -1, 0) }

NextQueries ==
    \/ \E cf \in ConfigsQueries :
          MatchInit("m1", cf.players, cf.turns, "None", "shared", cf.noise,
                    <<GivenAttributes>>)
    \/ \E pr \in {cf.players : cf \in ConfigsQueries} : SetPlayers("m1", pr)
    \/ Play("m1")
    \/ Winner("m1")
    \/ \E q \in Queries : Statistic("m1", q)

SpecQueries == Init /\ [][NextQueries]_vars

\* A Stalker driven turn by turn, for up to MaxStalkerTurns turns a match,
\* against every sequence of opponent actions, and reset between matches.
NextStalker ==
    \/ \E a \in {C, D} : StalkerTurn("stk", "opp", a)
    \/ StalkerResetStep("stk", "opp")

SpecStalker == Init /\ [][NextStalker]_vars

\* ------------------------------------------------------------ the claims

\* Some player of the Match is classified stochastic.
AnyStochastic(mm) == \E i \in 1..Len(mm.players) : Stochastic(mm.players[i])

\* The record the two players' histories make.
HistoriesRecord(mm) == Zip(history[mm.players[1]], history[mm.players[2]])

\* C1: whenever a match has noise > 0 or a player classified stochastic,
\* play() takes the fresh-simulation path, neither tests the cache for its key
\* nor reads an entry (what it returns is the record its own simulation
\* left in the players' histories), and leaves every cache as it was.  For a
\* noise within [0, 1] the match is taken as stochastic (the cache is not
\* even asked) exactly when noise > 0 or some player is stochastic.
C1_StochasticNeverTouchesCache ==
    [][ last'.op = "play" =>
          LET mm == match[last'.m]
              stochastic == mm.noise > 0 \/ AnyStochastic(mm)
          IN  /\ stochastic =>
                    /\ last'.path = "fresh"
                    /\ ~last'.tested /\ ~last'.read /\ ~last'.wrote
                    /\ cache' = cache
                    /\ ~last'.raised =>
                          last'.ret = Zip(history'[mm.players[1]],
                                          history'[mm.players[2]])
              /\ (mm.noise >= 0 /\ mm.noise <= 100) =>
                    (~last'.tested <=> stochastic)
      ]_vars

\* A noisy match has played afresh although the cache holds an entry under
\* its key.
C1_Witness ==
    /\ last.op = "play" /\ last.path = "fresh" /\ ~last.raised
    /\ match[last.m].noise > 0
    /\ last.key \in DOMAIN cache[match[last.m].cache].store

\* C2: a fresh simulation writes its record into the cache under the match's
\* key if and only if noise == 0, the cache's mutable flag is true and
\* neither player is classified stochastic; a write that goes through puts
\* exactly the returned record under exactly that key, no write leaves every
\* cache as it was, and no play() changes a cache whose mutable flag is
\* false.
C2_WriteIffEligible ==
    [][ last'.op = "play" =>
          LET mm == match[last'.m]
              c == mm.cache
              eligible == /\ mm.noise = 0
                          /\ cache[c].mutable
                          /\ ~AnyStochastic(mm)
          IN  /\ last'.path = "fresh" => (last'.wrote <=> eligible)
              /\ last'.path = "hit" => ~last'.wrote
              /\ (last'.wrote /\ ~last'.wfailed) =>
                    cache' = [cache EXCEPT ![c].store =
                                 StorePut(@, mm.cache_key, last'.ret)]
              /\ (~last'.wrote \/ last'.wfailed) => cache' = cache
              /\ \A c2 \in CacheIds : ~cache[c2].mutable => cache'[c2] = cache[c2]
      ]_vars

\* A fresh simulation of an eligible match has written its record under the
\* match's key.
C2_Witness ==
    /\ last.op = "play" /\ last.path = "fresh"
    /\ last.wrote /\ ~last.wfailed
    /\ match[last.m].turns > 0
    /\ last.key \in DOMAIN cache[match[last.m].cache].store
    /\ cache[match[last.m].cache].store[last.key] = last.ret

\* C3: if two non-stochastic players have been played with noise = 0 through
\* a mutable cache, the next play() of the same pairing and turn count
\* through that cache (by the same Match or by another) is a cache hit: it
\* returns the same record, resets no player and calls no player's play, and
\* leaves both players' histories and scores as they were.
C3_SecondPlayIsCacheHit ==
    [][ (last.op = "play" /\ ~last.raised /\ last'.op = "play") =>
          LET first == match[last.m]
              second == match[last'.m]
          IN  ( /\ first.noise = 0 /\ ~AnyStochastic(first)
                /\ cache[first.cache].mutable
                /\ second.noise = 0
                /\ second.players = first.players
                /\ second.turns = first.turns
                /\ second.cache = first.cache )
              => /\ last'.path = "hit"
                 /\ last'.ret = last.ret
                 /\ last'.resets = {} /\ last'.calls = 0
                 /\ history' = history /\ scores' = scores
      ]_vars

\* The one record a simulation of the Match's current pairing yields from
\* reset players, when there is just one.
Produced(mm) ==
    { Zip(st.h1, st.h2) :
        st \in { o \in PlayTurns(mm.players[1], mm.players[2], mm.noise, mm.turns, 0,
                                 {[h1 |-> <<>>, h2 |-> <<>>, s1 |-> <<>>,
                                   s2 |-> <<>>, raised |-> FALSE, calls |-> 0]})
                 : ~o.raised } }

\* C4: at every play() call, also after the players property has been
\* reassigned, the key play() uses on the cache is (current players[0],
\* current players[1], turns), and the record a cache hit returns is one the
\* pair the match currently holds produces.
C4_KeyIsCurrentPlayers ==
    last.op = "play" =>
        LET mm == match[last.m]
        IN  /\ last.key = <<mm.players[1], mm.players[2], mm.turns>>
            /\ (last.path = "hit" /\ ~AnyStochastic(mm)) => last.ret \in Produced(mm)

\* C5: two Match objects as constructed (players never reassigned) with the
\* same non-stochastic pairing, the same turn count and noise = 0, each on
\* the shared cache or on its own, hold the same record once both have
\* played.
C5_FreshMatchesAgree ==
    \A m1 \in Matches, m2 \in Matches :
        ( /\ match[m1].live /\ match[m2].live
          /\ ~match[m1].reassigned /\ ~match[m2].reassigned
          /\ match[m1].players = match[m2].players
          /\ match[m1].turns = match[m2].turns /\ match[m1].turns > 0
          /\ match[m1].noise = 0 /\ match[m2].noise = 0
          /\ ~AnyStochastic(match[m1])
          /\ match[m1].result # <<>> /\ match[m2].result # <<>> )
        => match[m1].result = match[m2].result

\* C6: len(match) is the configured turns in every state, and after every
\* play() call that returns, on either path, the stored record is turns long.
C6_RecordLengthIsTurns ==
    /\ \A m \in Matches : match[m].live => __len__(match[m]) = match[m].turns
    /\ (last.op = "play" /\ ~last.raised) =>
          Len(match[last.m].result) = match[last.m].turns

\* C7: a negative turns or a noise outside [0, 1] is rejected at
\* construction: no Match holds such parameters, and none is played or asked
\* for a statistic with them.
C7_InvalidParametersRejected ==
    \A m \in Matches :
        match[m].live =>
            /\ match[m].turns >= 0
            /\ match[m].noise >= 0 /\ match[m].noise <= 100

\* C8: when the cache write at the end of a fresh simulation raises, play()
\* still completes: the simulated record is stored as the match's result and
\* returned.
C8_WriteFailureDoesNotCrash ==
    (last.op = "play" /\ last.wfailed) =>
        /\ ~last.raised
        /\ match[last.m].result = HistoriesRecord(match[last.m])
        /\ last.ret = HistoriesRecord(match[last.m])

\* C9: winner() returns the player in the seat with the strictly higher final
\* score over the stored record, False on equal final scores and None on an
\* empty record; the three answers differ from one another.
C9_Winner ==
    /\ PyNone # PyFalse
    /\ last.op = "winner" =>
          LET mm == match[last.m]
              fs == compute_final_score(mm.result)
          IN  /\ mm.result = <<>> => last.winner = PyNone
              /\ (mm.result # <<>> /\ fs[1] = fs[2]) => last.winner = PyFalse
              /\ (mm.result # <<>> /\ fs[1] > fs[2]) =>
                    last.winner = PyPlayer(mm.players[1])
              /\ (mm.result # <<>> /\ fs[1] < fs[2]) =>
                    last.winner = PyPlayer(mm.players[2])
              /\ last.winner \in {PyNone, PyFalse} \/ last.winner[1] = "Player"

\* winner() has answered False for a played record with equal final scores.
C9_Witness ==
    /\ last.op = "winner"
    /\ match[last.m].result # <<>>
    /\ last.winner = PyFalse

\* The players of a Match.
PlayersOf(mm) == {mm.players[i] : i \in 1..Len(mm.players)}

\* C10: every assignment to a match's players property, the one at
\* construction included, pushes that match's match_attributes into each
\* assigned player; a player's attributes change in no other way, so they
\* are those of the match that took it last; and a player played by a match
\* reflects the attributes of that match, also when another match was
\* constructed with it in between.
C10_PlayersReflectTheirMatch ==
    [][ /\ \A m \in Matches :
              ( \/ match'[m].players # match[m].players
                \/ match'[m].match_attributes # match[m].match_attributes
                \/ match'[m].live # match[m].live ) =>
              \A p \in PlayersOf(match'[m]) :
                  attributes'[p] = match'[m].match_attributes
        /\ \A p \in Players :
              attributes'[p] # attributes[p] =>
              \E m \in Matches :
                  /\ p \in PlayersOf(match'[m])
                  /\ attributes'[p] = match'[m].match_attributes
        /\ last'.op = "play" =>
              \A p \in PlayersOf(match[last'.m]) :
                  attributes[p] = match[last'.m].match_attributes
      ]_vars

\* C11: the stored record is empty from construction until play() is first
\* invoked (a step that is no play() leaves every stored record as it is, or
\* empty where it builds a Match), and a play() call that returns replaces
\* it: whatever it held, and on either path, the stored record is then the
\* record that call returned, turns long, and on the fresh path the one the
\* players' histories of this simulation make.
C11_ResultIsReplaced ==
    [][ /\ last'.op # "play" =>
              \A m \in Matches :
                  \/ match'[m].result = match[m].result
                  \/ ~match'[m].reassigned /\ match'[m].result = <<>>
        /\ (last'.op = "play" /\ ~last'.raised) =>
              LET m == last'.m
              IN  /\ match'[m].result = last'.ret
                  /\ Len(match'[m].result) = match[m].turns
                  /\ last'.path = "fresh" =>
                        match'[m].result = Zip(history'[match[m].players[1]],
                                               history'[match[m].players[2]])
                  /\ last'.path = "hit" =>
                        match'[m].result = cache[match[m].cache].store[last'.key]
                  /\ \A m2 \in Matches \ {m} : match'[m2] = match[m2]
      ]_vars

\* A Match on a cache of its own has played a second time: the entry under
\* its key is of its own first play(), the call just made was served from it,
\* and the Match holds one record of turns turns.
C11_Witness ==
    /\ last.op = "play" /\ last.path = "hit"
    /\ match[last.m].cache = "own_" \o last.m
    /\ match[last.m].result # <<>>
    /\ match[last.m].result = cache[match[last.m].cache].store[last.key]
    /\ Len(match[last.m].result) = match[last.m].turns

\* C12: every fresh simulation resets both players before its first turn:
\* whatever histories and scores the players carried from earlier matches,
\* after a fresh play() that returns each player's history is turns long and
\* the record is one a simulation of reset players yields, and a Stalker's
\* scores are those of this simulation's turns alone.
C12_FreshSimulationResets ==
    [][ (last'.op = "play" /\ last'.path = "fresh") =>
          LET mm == match[last'.m]
              p1 == mm.players[1]
              p2 == mm.players[2]
              own_scores(p, q) ==
                  /\ Len(scores'[p]) <= Len(history'[p])
                  /\ \A i \in 1..Len(scores'[p]) :
                        scores'[p][i] = Score(<<history'[p][i], history'[q][i]>>)[1]
          IN  /\ last'.resets = {p1, p2}
              /\ Len(history'[p1]) <= mm.turns /\ Len(history'[p2]) <= mm.turns
              /\ own_scores(p1, p2) /\ own_scores(p2, p1)
              /\ ~last'.raised =>
                    /\ Len(history'[p1]) = mm.turns
                    /\ Len(history'[p2]) = mm.turns
                    /\ last'.ret \in Produced(mm)
      ]_vars

\* Two players that an earlier match played for MaxTurns turns (its record is
\* in the cache) have been played afresh by a match of one turn, and hold one
\* history entry each.
C12_Witness ==
    /\ last.op = "play" /\ last.path = "fresh" /\ ~last.raised
    /\ match[last.m].turns = 1
    /\ PlayersOf(match[last.m]) = {"coop", "dfc"}
    /\ \E k \in DOMAIN cache["shared"].store : k[3] = MaxTurns
    /\ Len(history["coop"]) = 1 /\ Len(history["dfc"]) = 1

\* C13: a fresh simulation ends after exactly turns calls of
\* players[0].play(players[1], noise), none for turns == 0 (and none for a
\* negative turns, which the loop condition never admits): no turn of the
\* loop is skipped or left early, and both histories have grown by one entry
\* per call.
C13_ExactlyTurnsCalls ==
    (last.op = "play" /\ last.path = "fresh") =>
        LET mm == match[last.m]
        IN  /\ last.calls = (IF mm.turns < 0 THEN 0 ELSE mm.turns)
            /\ Len(history[mm.players[1]]) = last.calls
            /\ Len(history[mm.players[2]]) = last.calls

\* A fresh simulation of MaxTurns turns has made MaxTurns calls.
C13_Witness ==
    /\ last.op = "play" /\ last.path = "fresh"
    /\ match[last.m].turns = MaxTurns
    /\ last.calls = MaxTurns
    /\ Len(match[last.m].result) = MaxTurns

\* C14: a match of turns == 0 gets the empty record from every play() that
\* returns; when its players are non-stochastic, noise = 0 and the cache is
\* mutable, a fresh play() leaves the empty record in the cache under
\* (players[0], players[1], 0), and a play() that finds that key in the cache
\* is served from it.
C14_ZeroTurnsCacheable ==
    [][ (last'.op = "play" /\ match[last'.m].turns = 0 /\ ~last'.raised) =>
          LET mm == match[last'.m]
              key == <<mm.players[1], mm.players[2], 0>>
              deterministic == mm.noise = 0 /\ ~AnyStochastic(mm)
          IN  /\ last'.ret = <<>> /\ match'[last'.m].result = <<>>
              /\ (deterministic /\ last'.path = "fresh" /\ cache[mm.cache].mutable) =>
                    /\ key \in DOMAIN cache'[mm.cache].store
                    /\ cache'[mm.cache].store[key] = <<>>
              /\ (deterministic /\ key \in DOMAIN cache[mm.cache].store) =>
                    last'.path = "hit"
      ]_vars

\* The sum of the four counts of a state distribution.
SumCounts(sd) == sd[<<C, C>>] + sd[<<C, D>>] + sd[<<D, C>>] + sd[<<D, D>>]

\* C15: after a play() that returns, on either path and also with a record
\* taken from the shared cache, the four counts of state_distribution() sum
\* to the match's configured turns, and so they do whenever the query is
\* made on a played record.
C15_StateDistributionSumsToTurns ==
    /\ (last.op = "play" /\ ~last.raised) =>
          SumCounts(state_distribution(match[last.m])) = match[last.m].turns
    /\ (last.op = "state_distribution" /\ match[last.m].result # <<>>) =>
          SumCounts(last.stat) = match[last.m].turns

\* C18: a statistic query (scores, final_score, final_score_per_turn, winner,
\* cooperation, normalised_cooperation, state_distribution,
\* normalised_state_distribution, sparklines, len) changes nothing: the
\* stored records, the caches, the players' histories, scores and attributes
\* are after it what they were before, so that every later play() starts
\* from the state it would have started from without the query.
C18_QueriesChangeNothing ==
    [][ last'.op \in Queries \cup {"winner"} =>
          /\ match' = match
          /\ cache' = cache
          /\ history' = history /\ scores' = scores /\ attributes' = attributes
      ]_vars

\* state_distribution() has been asked of a played record of MaxTurns turns
\* and its counts sum to MaxTurns.
C18_Witness ==
    /\ last.op = "state_distribution"
    /\ Len(match[last.m].result) = MaxTurns
    /\ SumCounts(last.stat) = MaxTurns
    /\ last.stat[<<C, D>>] = MaxTurns
    /\ DOMAIN cache["shared"].store # {}

\* C17: play() never overwrites or removes a cache entry: across the play()
\* calls of the matches that share a cache, every key present before a call
\* is present after it with the same record, and the call adds at most the
\* one entry under the playing match's own key, to the match's own cache.
C17_EntriesAreNeverOverwritten ==
    [][ last'.op = "play" =>
          \A c \in CacheIds :
              /\ \A k \in DOMAIN cache[c].store :
                    /\ k \in DOMAIN cache'[c].store
                    /\ cache'[c].store[k] = cache[c].store[k]
              /\ DOMAIN cache'[c].store \subseteq
                    DOMAIN cache[c].store \cup
                    (IF c = match[last'.m].cache
                     THEN {match[last'.m].cache_key} ELSE {})
              /\ cache'[c].mutable = cache[c].mutable
      ]_vars

\* A play() has added its entry to a cache that held another one, which is
\* still there.
C17_Witness ==
    /\ last.op = "play" /\ last.wrote /\ ~last.wfailed
    /\ last.key \in DOMAIN cache["shared"].store
    /\ \E k \in DOMAIN cache["shared"].store :
          k # last.key /\ cache["shared"].store[k] # cache["shared"].store[last.key]

\* C16: Stalker.strategy hands back a valid Action, C or D, on every turn,
\* whatever the own and the opponent's actions were, also when the running
\* average score equals one of the thresholds; on the first turn it is C.
C16_StalkerReturnsAnAction ==
    last.op = "strategy" =>
        /\ last.ret \in {<<C>>, <<D>>}
        /\ last.calls = 1 => last.ret = <<C>>

\* C19: whenever a Stalker driven one strategy call per turn computes its
\* average, the scores list is not empty, is as long as the player's own
\* history and holds the scores of this match's turns; on the first turn
\* nothing is scored; and reset() empties the scores with the history.
C19_ScoresFollowHistory ==
    [][ /\ (last'.op = "strategy" /\ Len(history["stk"]) > 0) =>
              /\ Len(scores'["stk"]) > 0
              /\ Len(scores'["stk"]) = Len(history["stk"])
              /\ \A i \in 1..Len(scores'["stk"]) :
                    scores'["stk"][i] =
                        Score(<<history["stk"][i], history["opp"][i]>>)[1]
        /\ (last'.op = "strategy" /\ Len(history["stk"]) = 0) =>
              scores'["stk"] = <<>> /\ scores["stk"] = <<>>
        /\ last'.op = "reset" =>
              history'["stk"] = <<>> /\ scores'["stk"] = <<>>
      ]_vars

\* A Stalker has taken the average of two scores on its third turn, after it
\* was exploited and then exploited its opponent.
C19_Witness ==
    /\ last.op = "strategy" /\ ~last.raised
    /\ Len(history["stk"]) = 3
    /\ scores["stk"] = <<0, 5>>

====
